---- MODULE Spec2Model ----
(***************************************************************************)
(* lockit-signup (src/index.js): the signup / resend / email-verification  *)
(* handlers of the Signup object, modelled as a state machine.             *)
(*                                                                         *)
(* Every handler is split at its asynchronous calls: the synchronous part  *)
(* of the handler is one action, and every adapter or mail callback is one *)
(* action.  Several requests may be in flight at once (one per slot), so   *)
(* callbacks of different requests interleave as they do under node.       *)
(*                                                                         *)
(* Strings are tuples of one-character strings, so that the regular        *)
(* expressions and string functions of the handlers are computed.          *)
(***************************************************************************)
EXTENDS Integers, Sequences, FiniteSets, TLC

\* ------------------------------------------------------------------------
\* Bounds of the model
\* ------------------------------------------------------------------------
\* requests in flight at the same time
MaxSlots == 2
\* the last instant of the clock
MaxTime == 2
\* accounts the store may hold
MaxAccounts == 2
\* values uuid.v4() may return after construction
MaxTokens == 2
\* ms(config.signup.tokenExpiration), in clock ticks
TokenExpiration == 1

Slots == 1..MaxSlots

\* ------------------------------------------------------------------------
\* JavaScript values
\* ------------------------------------------------------------------------
\* the value undefined: a missing body field or a deleted property
Undefined == <<"undefined">>
\* a Date property that is not set
NoDate == -1

Lower == {"a","b","c","d","e","f","g","h","i","j","k","l","m",
          "n","o","p","q","r","s","t","u","v","w","x","y","z"}
Upper == {"A","B","C","D","E","F","G","H","I","J","K","L","M",
          "N","O","P","Q","R","S","T","U","V","W","X","Y","Z"}
Digits == {"0","1","2","3","4","5","6","7","8","9"}
LowerSeq == <<"a","b","c","d","e","f","g","h","i","j","k","l","m",
              "n","o","p","q","r","s","t","u","v","w","x","y","z">>
UpperSeq == <<"A","B","C","D","E","F","G","H","I","J","K","L","M",
              "N","O","P","Q","R","S","T","U","V","W","X","Y","Z">>
DigitSeq == <<"0","1","2","3","4","5","6","7","8","9">>

\* !x for a body field: undefined and the empty string are falsy
Falsy(s) == s = Undefined \/ s = <<>>

\* String.prototype.toLowerCase
ToLowerChar(ch) ==
  IF ch \in Upper
    THEN LowerSeq[CHOOSE i \in 1..26 : UpperSeq[i] = ch]
    ELSE ch
ToLowerCase(s) == [i \in 1..Len(s) |-> ToLowerChar(s[i])]

\* encodeURIComponent: unreserved characters stay, the others become %XX
UriUnreserved == Lower \cup Upper \cup Digits \cup
                 {"-", "_", ".", "!", "~", "*", "'", "(", ")"}
PercentEncode(ch) ==
  CASE ch = " " -> <<"%","2","0">>
    [] ch = "@" -> <<"%","4","0">>
    [] ch = "%" -> <<"%","2","5">>
    [] ch = "+" -> <<"%","2","B">>
    [] ch = "/" -> <<"%","2","F">>
    [] OTHER    -> <<"%","3","F">>
RECURSIVE EncodeURIComponent(_)
EncodeURIComponent(s) ==
  IF s = <<>> THEN <<>>
  ELSE (IF Head(s) \in UriUnreserved THEN <<Head(s)>> ELSE PercentEncode(Head(s)))
       \o EncodeURIComponent(Tail(s))

\* EMAIL_REGEXP = /^[A-Za-z0-9._%+-]+@[A-Za-z0-9.-]+\.[A-Za-z]{2,6}$/
EmailLocalChars == Lower \cup Upper \cup Digits \cup {".", "_", "%", "+", "-"}
EmailDomainChars == Lower \cup Upper \cup Digits \cup {".", "-"}
EMAIL_REGEXP(s) ==
  \E p \in 1..Len(s), q \in 1..Len(s) :
     /\ p > 1
     /\ \A i \in 1..(p-1) : s[i] \in EmailLocalChars
     /\ s[p] = "@"
     /\ q > p + 1
     /\ \A i \in (p+1)..(q-1) : s[i] \in EmailDomainChars
     /\ s[q] = "."
     /\ (Len(s) - q) \in 2..6
     /\ \A i \in (q+1)..Len(s) : s[i] \in (Lower \cup Upper)

\* the token format test of getSignupToken:
\* new RegExp('[0-9a-f]{22}|[0-9a-f]{8}-[0-9a-f]{4}-[0-9a-f]{4}-[0-9a-f]{4}-[0-9a-f]{12}', 'i')
HexChars == Digits \cup {"a","b","c","d","e","f"} \cup {"A","B","C","D","E","F"}
HexRun(s, i, n) == /\ i + n - 1 <= Len(s)
                   /\ \A j \in i..(i+n-1) : s[j] \in HexChars
DashAt(s, i) == i <= Len(s) /\ s[i] = "-"
TokenRe(s) ==
  \E i \in 1..Len(s) :
     \/ HexRun(s, i, 22)
     \/ /\ HexRun(s, i, 8)       /\ DashAt(s, i + 8)
        /\ HexRun(s, i + 9, 4)   /\ DashAt(s, i + 13)
        /\ HexRun(s, i + 14, 4)  /\ DashAt(s, i + 18)
        /\ HexRun(s, i + 19, 4)  /\ DashAt(s, i + 23)
        /\ HexRun(s, i + 24, 12)

\* uuid.v4(): the k-th value the generator returns (a fresh value per call)
Rep(n, ch) == [i \in 1..n |-> ch]
UuidV4(k) == <<DigitSeq[k + 1]>> \o Rep(7, "a") \o <<"-">> \o Rep(4, "b") \o <<"-">>
             \o <<"4">> \o Rep(3, "c") \o <<"-">> \o <<"8">> \o Rep(3, "d") \o <<"-">>
             \o Rep(12, "e")


\* ------------------------------------------------------------------------
\* Inputs of the requests
\* ------------------------------------------------------------------------
Bob == <<"b","o","b">>
Amy == <<"a","m","y">>
BobMail == <<"b","@","x",".","i","o">>
AmyMail == <<"a","@","x",".","i","o">>
Pw == <<"x">>
User == <<"u","s","e","r">>

SignupBody(n, e, p, t) == [name |-> n, email |-> e, password |-> p, type |-> t]
ValidBodies == { SignupBody(Bob, BobMail, Pw, User),
                 SignupBody(Bob, AmyMail, Pw, User),
                 SignupBody(Amy, BobMail, Pw, User) }
InvalidBodies == { SignupBody(<<"B","o","b">>, BobMail, Pw, User) }
SignupBodies == ValidBodies \cup InvalidBodies

ResendEmails == {BobMail, AmyMail, <<"b","@","x">>}

\* a well-formed token that was never issued, and two malformed ones: one too
\* short to hold an accepted shape, one that holds an accepted shape and one
\* character more
Hex22 == Rep(22, "0")
BadTokens == {Rep(21, "0"), Rep(23, "0")}

\* ------------------------------------------------------------------------
\* State
\* ------------------------------------------------------------------------
VARIABLES
  config,    \* [rest, handleResponse]: config.rest, config.signup.handleResponse
  store,     \* the accounts the adapter holds, in the order they were saved
  now,       \* the clock: what new Date() / moment() return
  nextTok,   \* how many values uuid.v4() has returned, plus one
  call,      \* per slot: the request in flight (its position, locals, effects)
  issued,    \* history: the tokens persisted, oldest first, with their account
  retired    \* history: the tokens a Verification update removed, and how

vars == <<config, store, now, nextTok, call, issued, retired>>

NoUser == [id |-> 0, name |-> Undefined, email |-> Undefined,
           emailVerified |-> FALSE, emailVerificationTimestamp |-> NoDate,
           signupToken |-> Undefined, signupTokenExpires |-> NoDate]

IdleCall == [pc |-> "idle", op |-> "none", body |-> SignupBody(Undefined, Undefined, Undefined, Undefined),
             reqToken |-> Undefined, token |-> Undefined, user |-> NoUser,
             out |-> <<>>, mails |-> <<>>, events |-> <<>>,
             nFind |-> 0, nSave |-> 0, nUpdate |-> 0]

\* ------------------------------------------------------------------------
\* Outcomes of a request: what the handler does with res and next
\* ------------------------------------------------------------------------
Json403(code) == [type |-> "json", status |-> 403, code |-> code, view |-> ""]
Send204 == [type |-> "send", status |-> 204, code |-> "", view |-> ""]
Render(status, view, code) == [type |-> "render", status |-> status, code |-> code, view |-> view]
NextOk == [type |-> "next", status |-> 0, code |-> "", view |-> ""]
NextErr == [type |-> "next", status |-> 0, code |-> "err", view |-> ""]
\* an exception that leaves the callback (no response, no next)
Throws == [type |-> "throw", status |-> 0, code |-> "TypeError", view |-> ""]

\* ------------------------------------------------------------------------
\* The adapter (the persistence collaborator) and the mailer
\* ------------------------------------------------------------------------
FieldOf(a, field) ==
  CASE field = "name" -> a.name
    [] field = "email" -> a.email
    [] field = "signupToken" -> a.signupToken

\* adapter.find(field, value, cb): the first account whose field equals value
AdapterFind(field, value) ==
  LET hits == {i \in 1..Len(store) : FieldOf(store[i], field) = value}
  IN IF hits = {} THEN NoUser
     ELSE store[CHOOSE i \in hits : \A j \in hits : i <= j]

\* adapter.save(name, email, pw, type, cb): the account it inserts
AdapterSave(name, email) ==
  [id |-> Len(store) + 1, name |-> name, email |-> email,
   emailVerified |-> FALSE, emailVerificationTimestamp |-> NoDate,
   signupToken |-> UuidV4(nextTok), signupTokenExpires |-> now + TokenExpiration]

\* adapter.update(user, cb): the stored record of that identity is replaced
AdapterUpdate(user) == [store EXCEPT ![user.id] = user]

Mail(kind, name, email, token) == [kind |-> kind, name |-> name, email |-> email, token |-> token]

\* an entry of the history of persisted tokens
Issue(user, by) == [tok |-> user.signupToken, id |-> user.id, by |-> by,
                    expires |-> user.signupTokenExpires]


\* ------------------------------------------------------------------------
\* Starting and ending a request
\* ------------------------------------------------------------------------
\* a new request takes the first slot that holds no request in flight
Free(c) == /\ call[c].pc \in {"idle", "done"}
           /\ \A d \in Slots : d < c => call[d].pc \notin {"idle", "done"}
Rest == config.rest

\* the request r ends: its locals are gone, what it did stays on record
Done(r) == [r EXCEPT !.pc = "done", !.body = IdleCall.body, !.token = Undefined, !.user = NoUser]
\* the request r ends with outcome o
End(r, o) == Done([r EXCEPT !.out = Append(r.out, o)])

\* the request r starts in slot c; the records of finished requests are dropped
Start(c, r) == [d \in Slots |-> IF d = c THEN r
                                ELSE IF call[d].pc = "done" THEN IdleCall ELSE call[d]]

\* requests in flight that may still save an account, or still draw a token
SavesPending == Cardinality({c \in Slots : call[c].pc \in {"su_findName", "su_findEmail", "su_save"}})
TokensPending ==
  Cardinality({c \in Slots : call[c].pc \in {"su_findName", "su_findEmail", "su_save", "rs_find"}})

\* an account that signed up before this Signup object was constructed and
\* has not verified its address: what adapter.save stored at instant 0
PendingAccount ==
  [id |-> 1, name |-> Bob, email |-> BobMail,
   emailVerified |-> FALSE, emailVerificationTimestamp |-> NoDate,
   signupToken |-> UuidV4(0), signupTokenExpires |-> TokenExpiration]

\* the store the adapter holds at construction: empty, or one pending account
Init ==
  /\ config \in [rest : BOOLEAN, handleResponse : BOOLEAN]
  /\ store \in {<<>>, <<PendingAccount>>}
  /\ now = 0
  /\ nextTok = 1
  /\ call = [c \in Slots |-> IdleCall]
  /\ issued = IF store = <<>> THEN <<>> ELSE <<Issue(PendingAccount, "save")>>
  /\ retired = {}

\* time passes
Tick ==
  /\ now < MaxTime
  /\ now' = now + 1
  /\ UNCHANGED <<config, store, nextTok, call, issued, retired>>

\* ------------------------------------------------------------------------
\* POST /signup
\* ------------------------------------------------------------------------
\* (mutant) the lowercase check comes before the percent-encoding check
ValidateSignupLowerFirst(b) ==
  IF Falsy(b.name) \/ Falsy(b.email) \/ Falsy(b.password) THEN "signup.01"
  ELSE IF b.name # ToLowerCase(b.name) THEN "signup.03"
  ELSE IF b.name # EncodeURIComponent(b.name) THEN "signup.02"
  ELSE IF b.name[1] \notin Lower THEN "signup.04"
  ELSE IF ~EMAIL_REGEXP(b.email) THEN "signup.05"
  ELSE IF Falsy(b.type) THEN "signup.06"
  ELSE ""

\* the ordered input checks; "" is error = null
ValidateSignup(b) ==
  IF Falsy(b.name) \/ Falsy(b.email) \/ Falsy(b.password) THEN "signup.01"
  ELSE IF b.name # EncodeURIComponent(b.name) THEN "signup.02"
  ELSE IF b.name # ToLowerCase(b.name) THEN "signup.03"
  ELSE IF b.name[1] \notin Lower THEN "signup.04"
  ELSE IF ~EMAIL_REGEXP(b.email) THEN "signup.05"
  ELSE IF Falsy(b.type) THEN "signup.06"
  ELSE ""

\* (mutant) the validation error is answered without the status 403
SignupErrorStatusOk(code) ==
  IF Rest THEN [type |-> "json", status |-> 200, code |-> code, view |-> ""]
  ELSE Render(200, "get-signup", code)

\* the 403 answer of postSignup: JSON under REST, the signup view otherwise
SignupError(code) == IF Rest THEN Json403(code) ELSE Render(403, "get-signup", code)

\* mail.taken(user.name, user.email, ...)
TakenMail(user) == Mail("taken", user.name, user.email, Undefined)
\* (mutant) the signup mail is sent without the token
SignupMailNoToken(user) == Mail("signup", user.name, user.email, Undefined)

\* mail.signup(user.name, user.email, user.signupToken, ...)
SignupMail(user) == Mail("signup", user.name, user.email, user.signupToken)

\* (mutant) the answer tells that the address is registered
TakenResponseLeaks == SignupError("signup.07")

\* the answer after mail.taken succeeded
TakenResponse == IF Rest THEN Send204 ELSE Render(200, "post-signup", "")
\* the answer after mail.signup succeeded
SignedUpResponse == IF Rest THEN Send204 ELSE Render(200, "post-signup", "")

PostSignup(c, b) ==
  /\ Free(c)
  /\ Len(store) + SavesPending < MaxAccounts
  /\ (nextTok - 1) + TokensPending < MaxTokens
  /\ LET r == [IdleCall EXCEPT !.op = "signup", !.body = b]
         error == ValidateSignup(b)
     IN call' = Start(c, IF error # "" THEN End(r, SignupError(error))
                         ELSE [r EXCEPT !.pc = "su_findName"])
  /\ UNCHANGED <<config, store, now, nextTok, issued, retired>>

\* (mutant) a taken name does not stop the signup
SignupFindNameCbGoesOn(c, err) ==
  /\ call[c].pc = "su_findName"
  /\ LET r == [call[c] EXCEPT !.nFind = @ + 1]
     IN call' = [call EXCEPT ![c] =
                   IF err THEN End(r, NextErr) ELSE [r EXCEPT !.pc = "su_findEmail"]]
  /\ UNCHANGED <<config, store, now, nextTok, issued, retired>>

\* callback of adapter.find('name', name)
SignupFindNameCb(c, err) ==
  /\ call[c].pc = "su_findName"
  /\ LET r == [call[c] EXCEPT !.nFind = @ + 1]
         user == AdapterFind("name", r.body.name)
     IN call' = [call EXCEPT ![c] =
                   IF err THEN End(r, NextErr)
                   ELSE IF user # NoUser THEN End(r, SignupError("signup.07"))
                   ELSE [r EXCEPT !.pc = "su_findEmail"]]
  /\ UNCHANGED <<config, store, now, nextTok, issued, retired>>

\* callback of adapter.find('email', email)
SignupFindEmailCb(c, err) ==
  /\ call[c].pc = "su_findEmail"
  /\ LET r == [call[c] EXCEPT !.nFind = @ + 1]
         user == AdapterFind("email", r.body.email)
     IN call' = [call EXCEPT ![c] =
                   IF err THEN End(r, NextErr)
                   ELSE IF user # NoUser
                     THEN [r EXCEPT !.pc = "su_mailTaken", !.user = user,
                                    !.mails = Append(@, TakenMail(user))]
                   ELSE [r EXCEPT !.pc = "su_save"]]
  /\ UNCHANGED <<config, store, now, nextTok, issued, retired>>

\* callback of mail.taken
SignupMailTakenCb(c, err) ==
  /\ call[c].pc = "su_mailTaken"
  /\ call' = [call EXCEPT ![c] =
                IF err THEN End(@, NextErr) ELSE End(@, TakenResponse)]
  /\ UNCHANGED <<config, store, now, nextTok, issued, retired>>

\* adapter.save(name, email, password, type) and its callback
SignupSaveCb(c, err) ==
  /\ call[c].pc = "su_save"
  /\ LET r == [call[c] EXCEPT !.nSave = @ + 1]
         user == AdapterSave(r.body.name, r.body.email)
     IN IF err
          THEN /\ call' = [call EXCEPT ![c] = End(r, NextErr)]
               /\ UNCHANGED <<store, nextTok, issued>>
          ELSE /\ store' = Append(store, user)
               /\ nextTok' = nextTok + 1
               /\ issued' = Append(issued, Issue(user, "save"))
               /\ call' = [call EXCEPT ![c] =
                    [r EXCEPT !.pc = "su_mailSignup", !.user = user,
                              !.mails = Append(@, SignupMail(user))]]
  /\ UNCHANGED <<config, now, retired>>

\* (mutant) a failure of mail.signup is ignored
SignupMailSignupCbIgnoresErr(c, err) ==
  /\ call[c].pc = "su_mailSignup"
  /\ call' = [call EXCEPT ![c] =
                End([@ EXCEPT !.events = Append(@, "signup::post")], SignedUpResponse)]
  /\ UNCHANGED <<config, store, now, nextTok, issued, retired>>

\* callback of mail.signup
SignupMailSignupCb(c, err) ==
  /\ call[c].pc = "su_mailSignup"
  /\ call' = [call EXCEPT ![c] =
                IF err THEN End(@, NextErr)
                ELSE End([@ EXCEPT !.events = Append(@, "signup::post")], SignedUpResponse)]
  /\ UNCHANGED <<config, store, now, nextTok, issued, retired>>


\* ------------------------------------------------------------------------
\* POST /signup/resend-verification
\* ------------------------------------------------------------------------
ValidateResend(email) ==
  IF Falsy(email) \/ ~EMAIL_REGEXP(email) THEN "signup.08" ELSE ""

ResendError(code) == IF Rest THEN Json403(code) ELSE Render(403, "resend-verification", code)

\* (mutant) the resend mail carries the token the account had before
ResendMailStoredToken(user, email, token) ==
  Mail("resend", user.name, email, store[user.id].signupToken)

\* mail.resend(user.name, email, token, ...)
ResendMail(user, email, token) == Mail("resend", user.name, email, token)

\* the answer after mail.resend succeeded
ResentResponse == IF Rest THEN Send204 ELSE Render(200, "post-signup", "")

\* what the find callback does with the account it was given:
\*   if (!user)              { if (config.rest) return res.json(403, signup.10) }
\*   if (user.emailVerified) { if (config.rest) return res.json(403, signup.11) }
\* reading user.emailVerified of no user throws a TypeError
ResendLookup(user) ==
  IF user = NoUser
    THEN (IF Rest THEN "signup.10" ELSE "throw")
  ELSE IF user.emailVerified /\ Rest THEN "signup.11"
  ELSE "reissue"

\* (mutant) the expiration date is renewed, the new token is not stored
ResendUserKeepsToken(user, token) ==
  [user EXCEPT !.signupTokenExpires = now + TokenExpiration]

\* the account with a new token and a new expiration date
ResendUser(user, token) ==
  [user EXCEPT !.signupToken = token, !.signupTokenExpires = now + TokenExpiration]

PostSignupResend(c, email) ==
  /\ Free(c)
  /\ (nextTok - 1) + TokensPending < MaxTokens
  /\ LET r == [IdleCall EXCEPT !.op = "resend", !.body.email = email]
         error == ValidateResend(email)
     IN call' = Start(c, IF error # "" THEN End(r, ResendError(error))
                         ELSE [r EXCEPT !.pc = "rs_find"])
  /\ UNCHANGED <<config, store, now, nextTok, issued, retired>>

\* callback of adapter.find('email', email)
ResendFindCb(c, err) ==
  /\ call[c].pc = "rs_find"
  /\ LET r == [call[c] EXCEPT !.nFind = @ + 1]
         user == AdapterFind("email", r.body.email)
         what == ResendLookup(user)
     IN IF err
          THEN call' = [call EXCEPT ![c] = End(r, NextErr)] /\ nextTok' = nextTok
        ELSE IF what = "throw"
          THEN call' = [call EXCEPT ![c] = End(r, Throws)] /\ nextTok' = nextTok
        ELSE IF what # "reissue"
          THEN call' = [call EXCEPT ![c] = End(r, Json403(what))] /\ nextTok' = nextTok
        ELSE /\ call' = [call EXCEPT ![c] =
                  [r EXCEPT !.pc = "rs_update", !.token = UuidV4(nextTok),
                            !.user = ResendUser(user, UuidV4(nextTok))]]
             /\ nextTok' = nextTok + 1
  /\ UNCHANGED <<config, store, now, issued, retired>>

\* adapter.update(user) and its callback
ResendUpdateCb(c, err) ==
  /\ call[c].pc = "rs_update"
  /\ LET r == [call[c] EXCEPT !.nUpdate = @ + 1]
     IN IF err
          THEN /\ call' = [call EXCEPT ![c] = End(r, NextErr)]
               /\ UNCHANGED <<store, issued>>
          ELSE /\ store' = AdapterUpdate(r.user)
               /\ issued' = Append(issued, Issue(r.user, "resend"))
               /\ call' = [call EXCEPT ![c] =
                    [r EXCEPT !.pc = "rs_mail",
                              !.mails = Append(@, ResendMail(r.user, r.body.email, r.token))]]
  /\ UNCHANGED <<config, now, nextTok, retired>>

\* callback of mail.resend
ResendMailCb(c, err) ==
  /\ call[c].pc = "rs_mail"
  /\ call' = [call EXCEPT ![c] =
                IF err THEN End(@, NextErr) ELSE End(@, ResentResponse)]
  /\ UNCHANGED <<config, store, now, nextTok, issued, retired>>

\* ------------------------------------------------------------------------
\* GET /signup/:token
\* ------------------------------------------------------------------------
\* the tokens a client may present: every token issued so far (and the one of
\* the account that may exist at construction), a well-formed token nobody was
\* given, and the malformed ones
RequestTokens == {UuidV4(k) : k \in 0..(nextTok - 1)} \cup {Hex22} \cup BadTokens

\* (mutant) a token is expired from its expiration instant on
TokenExpiredAtBoundary(user) == user.signupTokenExpires <= now

\* new Date(user.signupTokenExpires) < new Date()
TokenExpired(user) == user.signupTokenExpires < now

\* (mutant) the expired token is not deleted
ExpiredUserKeepsToken(user) == user

\* delete user.signupToken
ExpiredUser(user) == [user EXCEPT !.signupToken = Undefined]

\* (mutant) the verification values are set, the token is not deleted
VerifiedUserKeepsToken(user) ==
  [user EXCEPT !.emailVerificationTimestamp = now, !.emailVerified = TRUE,
               !.signupTokenExpires = NoDate]

\* the verification values are set, token and expiration date are deleted
VerifiedUser(user) ==
  [user EXCEPT !.emailVerificationTimestamp = now, !.emailVerified = TRUE,
               !.signupToken = Undefined, !.signupTokenExpires = NoDate]

\* the answer of the expired path
ExpiredResponse == IF Rest THEN Json403("signup.09") ELSE Render(200, "link-expired", "")

\* the answer of the verified path, when the handler is to answer at all
VerifiedResponse == IF Rest THEN Send204 ELSE Render(200, "mail-verification-success", "")

GetSignupToken(c, token) ==
  /\ Free(c)
  /\ LET r == [IdleCall EXCEPT !.op = "verify", !.reqToken = token]
     IN call' = Start(c, IF ~TokenRe(token) THEN End(r, NextOk)
                         ELSE [r EXCEPT !.pc = "vt_find"])
  /\ UNCHANGED <<config, store, now, nextTok, issued, retired>>

\* callback of adapter.find('signupToken', token)
TokenFindCb(c, err) ==
  /\ call[c].pc = "vt_find"
  /\ LET r == [call[c] EXCEPT !.nFind = @ + 1]
         user == AdapterFind("signupToken", r.reqToken)
     IN call' = [call EXCEPT ![c] =
                   IF err THEN End(r, NextErr)
                   ELSE IF user = NoUser THEN End(r, NextOk)
                   ELSE IF TokenExpired(user)
                     THEN [r EXCEPT !.pc = "vt_updExpired", !.user = ExpiredUser(user)]
                   ELSE [r EXCEPT !.pc = "vt_updVerified", !.user = VerifiedUser(user)]]
  /\ UNCHANGED <<config, store, now, nextTok, issued, retired>>

\* adapter.update(user) of the expired path, and its callback
TokenExpiredUpdateCb(c, err) ==
  /\ call[c].pc = "vt_updExpired"
  /\ LET r == [call[c] EXCEPT !.nUpdate = @ + 1]
     IN IF err
          THEN /\ call' = [call EXCEPT ![c] = End(r, NextErr)]
               /\ UNCHANGED <<store, retired>>
          ELSE /\ store' = AdapterUpdate(r.user)
               /\ retired' = retired \cup {<<r.reqToken, "expired">>}
               /\ call' = [call EXCEPT ![c] = End(r, ExpiredResponse)]
  /\ UNCHANGED <<config, now, nextTok, issued>>

\* adapter.update(user) of the verified path, and its callback
TokenVerifiedUpdateCb(c, err) ==
  /\ call[c].pc = "vt_updVerified"
  /\ LET r == [call[c] EXCEPT !.nUpdate = @ + 1]
         e == [r EXCEPT !.events = Append(@, "signup")]
     IN IF err
          THEN /\ call' = [call EXCEPT ![c] = End(r, NextErr)]
               /\ UNCHANGED <<store, retired>>
          ELSE /\ store' = AdapterUpdate(r.user)
               /\ retired' = retired \cup {<<r.reqToken, "verified">>}
               /\ call' = [call EXCEPT ![c] =
                    IF config.handleResponse THEN End(e, VerifiedResponse)
                    ELSE Done(e)]
  /\ UNCHANGED <<config, now, nextTok, issued>>

\* ------------------------------------------------------------------------
\* The specification
\* ------------------------------------------------------------------------
\* no request is in flight
Quiet == \A d \in Slots : call[d].pc \in {"idle", "done"}

\* requests are served one after the other, and time passes
Next ==
  \/ Tick
  \/ \E c \in Slots, b \in SignupBodies : Quiet /\ PostSignup(c, b)
  \/ \E c \in Slots, err \in BOOLEAN : SignupFindNameCb(c, err)
  \/ \E c \in Slots, err \in BOOLEAN : SignupFindEmailCb(c, err)
  \/ \E c \in Slots, err \in BOOLEAN : SignupMailTakenCb(c, err)
  \/ \E c \in Slots, err \in BOOLEAN : SignupSaveCb(c, err)
  \/ \E c \in Slots, err \in BOOLEAN : SignupMailSignupCb(c, err)
  \/ \E c \in Slots, email \in ResendEmails : Quiet /\ PostSignupResend(c, email)
  \/ \E c \in Slots, err \in BOOLEAN : ResendFindCb(c, err)
  \/ \E c \in Slots, err \in BOOLEAN : ResendUpdateCb(c, err)
  \/ \E c \in Slots, err \in BOOLEAN : ResendMailCb(c, err)
  \/ \E c \in Slots, token \in RequestTokens : Quiet /\ GetSignupToken(c, token)
  \/ \E c \in Slots, err \in BOOLEAN : TokenFindCb(c, err)
  \/ \E c \in Slots, err \in BOOLEAN : TokenExpiredUpdateCb(c, err)
  \/ \E c \in Slots, err \in BOOLEAN : TokenVerifiedUpdateCb(c, err)

Spec == Init /\ [][Next]_vars

\* up to MaxSlots requests are in flight and their callbacks interleave;
\* the clock stands still, so that no token expires
NextConc ==
  \/ \E c \in Slots, b \in SignupBodies : PostSignup(c, b)
  \/ \E c \in Slots, err \in BOOLEAN : SignupFindNameCb(c, err)
  \/ \E c \in Slots, err \in BOOLEAN : SignupFindEmailCb(c, err)
  \/ \E c \in Slots, err \in BOOLEAN : SignupMailTakenCb(c, err)
  \/ \E c \in Slots, err \in BOOLEAN : SignupSaveCb(c, err)
  \/ \E c \in Slots, err \in BOOLEAN : SignupMailSignupCb(c, err)
  \/ \E c \in Slots, email \in ResendEmails : PostSignupResend(c, email)
  \/ \E c \in Slots, err \in BOOLEAN : ResendFindCb(c, err)
  \/ \E c \in Slots, err \in BOOLEAN : ResendUpdateCb(c, err)
  \/ \E c \in Slots, err \in BOOLEAN : ResendMailCb(c, err)
  \/ \E c \in Slots, token \in RequestTokens : GetSignupToken(c, token)
  \/ \E c \in Slots, err \in BOOLEAN : TokenFindCb(c, err)
  \/ \E c \in Slots, err \in BOOLEAN : TokenVerifiedUpdateCb(c, err)

SpecConc == Init /\ [][NextConc]_vars

\* the race of two Resends: Resends and Verifications only, at most two of
\* them in flight, their callbacks interleaving, the clock standing still
Racers == {1, 2}

NextResend ==
  \/ \E c \in Racers, email \in ResendEmails : PostSignupResend(c, email)
  \/ \E c \in Racers, err \in BOOLEAN : ResendFindCb(c, err)
  \/ \E c \in Racers, err \in BOOLEAN : ResendUpdateCb(c, err)
  \/ \E c \in Racers, err \in BOOLEAN : ResendMailCb(c, err)
  \/ \E c \in Racers, token \in RequestTokens : GetSignupToken(c, token)
  \/ \E c \in Racers, err \in BOOLEAN : TokenFindCb(c, err)
  \/ \E c \in Racers, err \in BOOLEAN : TokenVerifiedUpdateCb(c, err)

SpecResend == Init /\ [][NextResend]_vars


\* ------------------------------------------------------------------------
\* The input checks of POST /signup on their own
\* ------------------------------------------------------------------------
\* request bodies that pass every check or fail one or several of them
CheckedNames == { Undefined, <<>>, Bob, <<"B","o","b">>, <<"b"," ","b">>, <<"B"," ","b">>,
                  <<"1","a","b">>, <<"1","A","b">>, <<"_","b">> }
CheckedEmails == { Undefined, <<>>, BobMail, <<"b","@","x">>, <<"b","@","x",".","i">> }
CheckedPasswords == { Undefined, <<>>, Pw }
CheckedTypes == { Undefined, <<>>, User }
CheckedBodies == { SignupBody(n, e, p, t) :
                     n \in CheckedNames, e \in CheckedEmails,
                     p \in CheckedPasswords, t \in CheckedTypes }

\* a request with one of these bodies has arrived and postSignup is to run
InitChecks ==
  /\ config \in [rest : BOOLEAN, handleResponse : BOOLEAN]
  /\ store = <<>>
  /\ now = 0
  /\ nextTok = 1
  /\ \E b \in CheckedBodies :
        call = [c \in Slots |-> IF c = 1
                                  THEN [IdleCall EXCEPT !.pc = "su_received", !.op = "signup", !.body = b]
                                  ELSE IdleCall]
  /\ issued = <<>>
  /\ retired = {}

\* postSignup up to its first adapter call; the request keeps its body
PostSignupChecks(c) ==
  /\ call[c].pc = "su_received"
  /\ LET r == call[c]
         error == ValidateSignup(r.body)
     IN call' = [call EXCEPT ![c] =
                   IF error # "" THEN [r EXCEPT !.pc = "done", !.out = Append(@, SignupError(error))]
                   ELSE [r EXCEPT !.pc = "su_findName"]]
  /\ UNCHANGED <<config, store, now, nextTok, issued, retired>>

NextChecks == \E c \in Slots : PostSignupChecks(c)

SpecChecks == InitChecks /\ [][NextChecks]_vars

\* ------------------------------------------------------------------------
\* Properties
\* ------------------------------------------------------------------------
\* the callback of slot c that was pending at position pc runs in this step
Acts(c, pc) == call[c].pc = pc /\ call'[c].pc # pc
\* ... and the adapter or mailer did not report a failure to it
NoErr(c) == call'[c].out # <<NextErr>>
\* the account a lookup by the request's token returns
Holder(c) == AdapterFind("signupToken", call[c].reqToken)

\* what the client sees when an address was verified
VerifiedOutcome ==
  IF ~config.handleResponse THEN <<>>
  ELSE IF config.rest THEN <<[type |-> "send", status |-> 204, code |-> "", view |-> ""]>>
  ELSE <<[type |-> "render", status |-> 200, code |-> "", view |-> "mail-verification-success"]>>

\* C1: a Verification that finds an account whose signupTokenExpires is later
\* than the current time takes the verified path; when its update is persisted
\* the stored account has emailVerified = TRUE and neither signupToken nor
\* signupTokenExpires, the signup event is emitted and the verified answer is
\* given; a Verification that looks up a token which a successful Verification
\* has consumed ends with next() and changes no account.  (Steps in which the
\* adapter reports a failure are excepted: they end with next(err).)
C1_VerifiedThenNotApplicable ==
  [][\A c \in Slots :
       /\ (Acts(c, "vt_find") /\ NoErr(c) /\ Holder(c) # NoUser
             /\ Holder(c).signupTokenExpires > now)
          => /\ call'[c].pc = "vt_updVerified"
             /\ call'[c].user.id = Holder(c).id
       /\ (Acts(c, "vt_updVerified") /\ NoErr(c))
          => /\ store'[call[c].user.id].emailVerified = TRUE
             /\ store'[call[c].user.id].signupToken = Undefined
             /\ store'[call[c].user.id].signupTokenExpires = NoDate
             /\ call'[c].pc = "done"
             /\ call'[c].events = <<"signup">>
             /\ call'[c].out = VerifiedOutcome
       /\ (Acts(c, "vt_find") /\ NoErr(c) /\ <<call[c].reqToken, "verified">> \in retired)
          => /\ call'[c].pc = "done"
             /\ call'[c].out = <<NextOk>>
             /\ call'[c].nUpdate = 0
             /\ store' = store
    ]_vars

\* C1 witness: a token was consumed by a successful Verification (its account
\* is verified), and a second Verification with that token has ended in next()
C1_Witness ==
  \E c \in Slots :
     /\ call[c].op = "verify" /\ call[c].pc = "done"
     /\ call[c].out = <<NextOk>> /\ call[c].nFind = 1
     /\ <<call[c].reqToken, "verified">> \in retired
     /\ \E i \in 1..Len(store) : store[i].emailVerified

\* what the client sees when the link has expired
ExpiredOutcome ==
  IF config.rest THEN <<[type |-> "json", status |-> 403, code |-> "signup.09", view |-> ""]>>
  ELSE <<[type |-> "render", status |-> 200, code |-> "", view |-> "link-expired"]>>

\* C2: a Verification that finds an account whose signupTokenExpires is in the
\* past takes the expired path; when its update is persisted the expired answer
\* is given and the stored account has no signupToken, emailVerified = FALSE and
\* no emailVerificationTimestamp
C2_ExpiredLeavesUnverified ==
  [][\A c \in Slots :
       /\ (Acts(c, "vt_find") /\ NoErr(c) /\ Holder(c) # NoUser
             /\ Holder(c).signupTokenExpires < now)
          => call'[c].pc = "vt_updExpired"
       /\ (Acts(c, "vt_updExpired") /\ NoErr(c))
          => /\ call'[c].out = ExpiredOutcome
             /\ store'[call[c].user.id].signupToken = Undefined
             /\ store'[call[c].user.id].emailVerified = FALSE
             /\ store'[call[c].user.id].emailVerificationTimestamp = NoDate
    ]_vars

\* C3: every account with emailVerified = TRUE has neither signupToken nor
\* signupTokenExpires
C3_VerifiedHasNoToken ==
  \A i \in 1..Len(store) :
     store[i].emailVerified =>
        store[i].signupToken = Undefined /\ store[i].signupTokenExpires = NoDate


\* the account a Resend looks up
Addressee(c) == AdapterFind("email", call[c].body.email)

\* C4: a Resend that finds an account with emailVerified = TRUE ends in that
\* step with the error signup.11, without adapter.update, without a mail and
\* with every account unchanged
C4_ResendVerifiedRejected ==
  [][\A c \in Slots :
       (Acts(c, "rs_find") /\ NoErr(c) /\ Addressee(c) # NoUser /\ Addressee(c).emailVerified)
       => /\ call'[c].pc = "done"
          /\ Len(call'[c].out) = 1
          /\ call'[c].out[1].status = 403
          /\ call'[c].out[1].code = "signup.11"
          /\ call'[c].nUpdate = 0
          /\ call'[c].mails = <<>>
          /\ store' = store
    ]_vars

\* C5: every account has signupTokenExpires if and only if it has signupToken
C5_TokenIffExpires ==
  \A i \in 1..Len(store) :
     (store[i].signupTokenExpires # NoDate) <=> (store[i].signupToken # Undefined)

\* C6 as stated: a Verification at a time equal to the account's
\* signupTokenExpires takes the expired path and does not set emailVerified
C6_BoundaryIsExpired ==
  [][\A c \in Slots :
       (Acts(c, "vt_find") /\ NoErr(c) /\ Holder(c) # NoUser
          /\ Holder(c).signupTokenExpires = now)
       => /\ call'[c].pc = "vt_updExpired"
          /\ call'[c].user.emailVerified = Holder(c).emailVerified
    ]_vars

\* C6 amended: a Verification takes the expired path exactly when the account's
\* signupTokenExpires is strictly earlier than the current time; at a time equal
\* to signupTokenExpires it takes the verified path and sets emailVerified
C6_BoundaryIsValid ==
  [][\A c \in Slots :
       (Acts(c, "vt_find") /\ NoErr(c) /\ Holder(c) # NoUser)
       => /\ (call'[c].pc = "vt_updExpired") <=> (Holder(c).signupTokenExpires < now)
          /\ (Holder(c).signupTokenExpires = now)
               => /\ call'[c].pc = "vt_updVerified"
                  /\ call'[c].user.emailVerified = TRUE
                  /\ call'[c].user.emailVerificationTimestamp = now
    ]_vars

\* C6 witness: an account was verified by a token at the very instant that
\* token expired
C6_Witness ==
  \E i \in 1..Len(store), k \in 1..Len(issued) :
     /\ store[i].emailVerified
     /\ issued[k].id = store[i].id
     /\ issued[k].expires = store[i].emailVerificationTimestamp
     /\ <<issued[k].tok, "verified">> \in retired

\* what the client sees after a signup that was accepted
SignedUpOutcome ==
  IF config.rest THEN <<[type |-> "send", status |-> 204, code |-> "", view |-> ""]>>
  ELSE <<[type |-> "render", status |-> 200, code |-> "", view |-> "post-signup"]>>

\* C7: a Signup that passed validation and the name lookup and whose email
\* belongs to an existing account sends mail.taken to that account's name and
\* email, never calls adapter.save (no account is added), and when the mail
\* succeeded gives the answer a fresh signup gives (204 under REST, the
\* signed-up view otherwise)
C7_DuplicateEmailIndistinguishable ==
  [][\A c \in Slots :
       /\ (Acts(c, "su_findEmail") /\ NoErr(c) /\ Addressee(c) # NoUser)
          => /\ call'[c].pc = "su_mailTaken"
             /\ call'[c].mails = <<[kind |-> "taken", name |-> Addressee(c).name,
                                    email |-> Addressee(c).email, token |-> Undefined]>>
             /\ store' = store
       /\ Acts(c, "su_mailTaken")
          => /\ call'[c].pc = "done"
             /\ call'[c].nSave = 0
             /\ call'[c].events = <<>>
             /\ store' = store
             /\ NoErr(c) => call'[c].out = SignedUpOutcome
       /\ (Acts(c, "su_mailSignup") /\ NoErr(c))
          => call'[c].out = SignedUpOutcome
    ]_vars

\* C7 witness: a signup with the email of an existing account has ended with
\* the duplicate-registration mail and the answer of an accepted signup
C7_Witness ==
  \E c \in Slots :
     /\ call[c].op = "signup" /\ call[c].pc = "done"
     /\ Len(call[c].mails) = 1 /\ call[c].mails[1].kind = "taken"
     /\ call[c].out = SignedUpOutcome
     /\ call[c].nSave = 0

\* the accepted token shapes, over the whole string
WholeTokenShape(s) ==
  \/ Len(s) = 22 /\ HexRun(s, 1, 22)
  \/ /\ Len(s) = 36
     /\ HexRun(s, 1, 8)   /\ DashAt(s, 9)
     /\ HexRun(s, 10, 4)  /\ DashAt(s, 14)
     /\ HexRun(s, 15, 4)  /\ DashAt(s, 19)
     /\ HexRun(s, 20, 4)  /\ DashAt(s, 24)
     /\ HexRun(s, 25, 12)

\* C8: a Signup that passed validation and both lookups, and whose name and
\* email match no existing account, adds exactly one account, with the
\* submitted name and email, emailVerified = FALSE, a non-empty signupToken of
\* the accepted shape and a signupTokenExpires later than the current time,
\* and then sends the signup mail with that account's name, email and token
C8_FreshSignupCreatesPending ==
  [][\A c \in Slots :
       (/\ Acts(c, "su_save") /\ NoErr(c)
        /\ \A i \in 1..Len(store) : /\ store[i].name # call[c].body.name
                                    /\ store[i].email # call[c].body.email)
       => /\ Len(store') = Len(store) + 1
          /\ \A i \in 1..Len(store) : store'[i] = store[i]
          /\ call'[c].nSave = 1
          /\ call'[c].pc = "su_mailSignup"
          /\ LET a == store'[Len(store')]
             IN /\ a.name = call[c].body.name
                /\ a.email = call[c].body.email
                /\ a.emailVerified = FALSE
                /\ a.signupToken # Undefined
                /\ a.signupToken # <<>>
                /\ WholeTokenShape(a.signupToken)
                /\ a.signupTokenExpires > now
                /\ call'[c].mails = <<[kind |-> "signup", name |-> a.name,
                                       email |-> a.email, token |-> a.signupToken]>>
    ]_vars

\* C8 witness: a signup has saved a pending account and mailed its token
C8_Witness ==
  \E c \in Slots :
     /\ call[c].op = "signup" /\ call[c].pc = "done"
     /\ call[c].nSave = 1 /\ call[c].out = SignedUpOutcome
     /\ Len(call[c].mails) = 1 /\ call[c].mails[1].kind = "signup"
     /\ \E i \in 1..Len(store) :
           /\ store[i].signupToken = call[c].mails[1].token
           /\ store[i].signupTokenExpires > now
           /\ ~store[i].emailVerified

Superseded(tok) ==
  \E i, j \in 1..Len(issued) :
     /\ i < j
     /\ issued[i].tok = tok
     /\ issued[i].id = issued[j].id
     /\ issued[i].by = "resend" /\ issued[j].by = "resend"

\* C10: a Resend stores the token it mails, and that token differs from every
\* token persisted before; once a second Resend for an account is persisted, a
\* Verification with the first Resend's token ends with next() and changes no
\* account, and a Verification finds an account only by the token persisted
\* last for it
C10_SecondResendInvalidatesFirst ==
  [][\A c \in Slots :
       /\ (Acts(c, "rs_update") /\ NoErr(c))
          => /\ Len(call'[c].mails) = 1
             /\ call'[c].mails[1].kind = "resend"
             /\ store'[call[c].user.id].signupToken = call'[c].mails[1].token
             /\ \A k \in 1..Len(issued) : issued[k].tok # call'[c].mails[1].token
       /\ (Acts(c, "vt_find") /\ NoErr(c) /\ Superseded(call[c].reqToken))
          => /\ call'[c].pc = "done"
             /\ call'[c].out = <<NextOk>>
             /\ store' = store
       /\ (Acts(c, "vt_find") /\ NoErr(c) /\ Holder(c) # NoUser)
          => \A k \in 1..Len(issued) :
                (issued[k].id = Holder(c).id /\ issued[k].tok # call[c].reqToken)
                => \E m \in (k+1)..Len(issued) :
                      issued[m].id = Holder(c).id /\ issued[m].tok = call[c].reqToken
    ]_vars

\* C10 witness: two Resends for one account were persisted and a Verification
\* with the first one's token has ended in next()
C10_Witness ==
  \E c \in Slots :
     /\ call[c].op = "verify" /\ call[c].pc = "done"
     /\ call[c].out = <<NextOk>> /\ call[c].nFind = 1
     /\ Superseded(call[c].reqToken)

\* C11: a Verification whose token is not, as a whole, 22 hexadecimal
\* characters or the dashed 8-4-4-4-12 hexadecimal form has ended with next()
\* and has called adapter.find not once, also when the token is longer than an
\* accepted shape and contains one
C11_MalformedTokenNoLookup ==
  \A c \in Slots :
     (call[c].op = "verify" /\ ~WholeTokenShape(call[c].reqToken))
     => /\ call[c].pc = "done"
        /\ call[c].out = <<NextOk>>
        /\ call[c].nFind = 0

\* a request that ended with the one answer 403 / code and did nothing else
RejectedOnly(r, code) ==
  /\ r.pc = "done"
  /\ Len(r.out) = 1
  /\ r.out[1].type \in {"json", "render"}
  /\ r.out[1].status = 403
  /\ r.out[1].code = code
  /\ r.nFind = 0 /\ r.nSave = 0 /\ r.nUpdate = 0
  /\ r.mails = <<>> /\ r.events = <<>>

\* a request of the kind op arrives in slot c in this step
Arrives(c, op) ==
  /\ call[c].pc \in {"idle", "done"}
  /\ call'[c] # call[c]
  /\ call'[c].op = op

\* C12: a Signup or a Resend whose input fails validation ends in the step
\* that received it, with the answer 403 and the code of the failed check,
\* without adapter.find, adapter.save, adapter.update, without a mail and
\* without an event, and leaves every account as it was; the name "Bob" fails
\* with signup.03
C12_InvalidInputNoSideEffects ==
  [][\A c \in Slots :
       /\ Arrives(c, "signup")
          => /\ \A b \in SignupBodies :
                  (PostSignup(c, b) /\ ValidateSignup(b) # "")
                  => RejectedOnly(call'[c], ValidateSignup(b)) /\ store' = store
             /\ PostSignup(c, SignupBody(<<"B","o","b">>, BobMail, Pw, User))
                  => RejectedOnly(call'[c], "signup.03")
       /\ Arrives(c, "resend")
          => \A email \in ResendEmails :
                (PostSignupResend(c, email) /\ ValidateResend(email) # "")
                => RejectedOnly(call'[c], "signup.08") /\ store' = store
    ]_vars

\* C12 witness: the signup of the name "Bob" was answered with 403 and
\* signup.03 and no lookup was made
C12_Witness ==
  \E c \in Slots :
     /\ call[c].op = "signup" /\ call[c].pc = "done"
     /\ Len(call[c].out) = 1
     /\ call[c].out[1].status = 403 /\ call[c].out[1].code = "signup.03"
     /\ call[c].nFind = 0 /\ call[c].mails = <<>>

\* the code the six checks call for, in their order
FirstFailingCheck(b) ==
  IF b.name \in {Undefined, <<>>} \/ b.email \in {Undefined, <<>>} \/ b.password \in {Undefined, <<>>}
    THEN "signup.01"
  ELSE IF \E i \in 1..Len(b.name) : b.name[i] \notin UriUnreserved THEN "signup.02"
  ELSE IF \E i \in 1..Len(b.name) : b.name[i] \in Upper THEN "signup.03"
  ELSE IF b.name[1] \notin (Lower \cup Upper) THEN "signup.04"
  ELSE IF ~EMAIL_REGEXP(b.email) THEN "signup.05"
  ELSE IF b.type \in {Undefined, <<>>} THEN "signup.06"
  ELSE ""

\* the error code postSignup reported for the request r ("" when none)
ReportedCode(r) == IF r.pc = "done" THEN r.out[1].code ELSE ""

\* C13: once the input checks of a Signup have run, the code reported is that
\* of the first failing check in the order signup.01 (name, email or password
\* missing or empty), signup.02 (name differs from its percent-encoding),
\* signup.03 (name not lowercase), signup.04 (first character not a letter),
\* signup.05 (email does not match the pattern), signup.06 (type missing); no
\* error is reported when all six pass, and the six codes are pairwise distinct
C13_FirstFailingCheckWins ==
  /\ \A c \in Slots :
        (call[c].op = "signup" /\ call[c].pc \notin {"idle", "su_received"})
        => /\ ReportedCode(call[c]) = FirstFailingCheck(call[c].body)
           /\ (call[c].pc = "su_findName") <=> (FirstFailingCheck(call[c].body) = "")
           /\ call[c].pc = "done" => Len(call[c].out) = 1 /\ call[c].out[1].status = 403
  /\ Cardinality({ValidateSignup(b) : b \in CheckedBodies} \ {""}) = 6

\* C13 witness: the name "B b" fails the percent-encoding check and the
\* lowercase check, and signup.02 was reported
C13_Witness ==
  \E c \in Slots :
     /\ call[c].pc = "done"
     /\ call[c].body = SignupBody(<<"B"," ","b">>, BobMail, Pw, User)
     /\ call[c].out[1].code = "signup.02"

\* C14: a token that a Verification update has removed from its account, on
\* the verified path or on the expired path, is the signupToken of no account
\* ever after: a lookup by it finds no account
C14_RetiredTokenNeverFound ==
  \A t \in retired :
     /\ \A i \in 1..Len(store) : store[i].signupToken # t[1]
     /\ AdapterFind("signupToken", t[1]) = NoUser

\* C14 witness: one token was discarded on the expired path, another one was
\* issued and consumed after that, and a Verification that looked up the
\* discarded token has ended in next()
C14_Witness ==
  \E c \in Slots :
     /\ call[c].op = "verify" /\ call[c].pc = "done"
     /\ call[c].out = <<NextOk>> /\ call[c].nFind = 1
     /\ <<call[c].reqToken, "expired">> \in retired
     /\ \E t \in retired : t[2] = "verified" /\ t[1] # call[c].reqToken

\* C15: no step changes the emailVerificationTimestamp of an account that is
\* verified, and no step takes an account from emailVerified = TRUE back to
\* FALSE
C15_VerifiedIsTerminal ==
  [][\A i \in 1..Len(store) :
       store[i].emailVerified
       => /\ store'[i].emailVerified
          /\ store'[i].emailVerificationTimestamp = store[i].emailVerificationTimestamp
    ]_vars

\* C16: a Resend whose email belongs to no account ends, in the step that
\* receives the result of its one adapter.find, with the error signup.10,
\* without adapter.update and without a mail, whatever config.rest is
C16_ResendUnknownRejected ==
  [][\A c \in Slots :
       (Acts(c, "rs_find") /\ NoErr(c) /\ Addressee(c) = NoUser)
       => /\ call'[c].pc = "done"
          /\ Len(call'[c].out) = 1
          /\ call'[c].out[1].type \in {"json", "render"}
          /\ call'[c].out[1].code = "signup.10"
          /\ call'[c].nFind = 1
          /\ call'[c].nUpdate = 0
          /\ call'[c].mails = <<>>
          /\ store' = store
    ]_vars

\* C17: a Signup that passed validation and whose name belongs to an existing
\* account ends, in the step that receives the result of the lookup by name,
\* with the error signup.07 and status 403, after that one adapter.find, with
\* no adapter.save, no mail and no event, and with every account unchanged
C17_TakenNameRejected ==
  [][\A c \in Slots :
       (/\ Acts(c, "su_findName") /\ NoErr(c)
        /\ \E i \in 1..Len(store) : store[i].name = call[c].body.name)
       => /\ call'[c].pc = "done"
          /\ Len(call'[c].out) = 1
          /\ call'[c].out[1].type \in {"json", "render"}
          /\ call'[c].out[1].status = 403
          /\ call'[c].out[1].code = "signup.07"
          /\ call'[c].nFind = 1
          /\ call'[c].nSave = 0
          /\ call'[c].mails = <<>>
          /\ call'[c].events = <<>>
          /\ store' = store
    ]_vars

\* C17 witness: a signup has ended with signup.07 after one lookup
C17_Witness ==
  \E c \in Slots :
     /\ call[c].op = "signup" /\ call[c].pc = "done"
     /\ Len(call[c].out) = 1 /\ call[c].out[1].code = "signup.07"
     /\ call[c].nFind = 1 /\ call[c].nSave = 0
     /\ call[c].mails = <<>> /\ call[c].events = <<>>

\* the adapter or the mailer reports a failure to the pending callback of slot c
FailedCall(c) ==
  \/ SignupFindNameCb(c, TRUE)  \/ SignupFindEmailCb(c, TRUE)
  \/ SignupMailTakenCb(c, TRUE) \/ SignupSaveCb(c, TRUE)
  \/ SignupMailSignupCb(c, TRUE)
  \/ ResendFindCb(c, TRUE) \/ ResendUpdateCb(c, TRUE) \/ ResendMailCb(c, TRUE)
  \/ TokenFindCb(c, TRUE) \/ TokenExpiredUpdateCb(c, TRUE) \/ TokenVerifiedUpdateCb(c, TRUE)

\* C18: the step in which a find, save, update or mail call reports a failure
\* ends the request with next(err) as its only outcome: no answer, no event,
\* no further mail, and the store as it was; after a failed find no save, no
\* update and no mail was made, after a failed save or update no mail was
\* made, and after a failed signup mail the saved account is still stored
\* with the token that was to be mailed
C18_FirstFailureEndsWorkflow ==
  [][\A c \in Slots :
       FailedCall(c)
       => /\ call'[c].pc = "done"
          /\ call'[c].out = <<NextErr>>
          /\ call'[c].events = <<>>
          /\ call'[c].mails = call[c].mails
          /\ store' = store
          /\ call[c].pc \in {"su_findName", "su_findEmail", "rs_find", "vt_find"}
                => /\ call'[c].nSave = 0 /\ call'[c].nUpdate = 0
                   /\ call'[c].mails = <<>>
          /\ call[c].pc \in {"su_save", "rs_update", "vt_updExpired", "vt_updVerified"}
                => call'[c].mails = <<>>
          /\ call[c].pc = "su_mailSignup"
                => \E i \in 1..Len(store') :
                      /\ store'[i] = call[c].user
                      /\ store'[i].signupToken = call[c].mails[1].token
                      /\ ~store'[i].emailVerified
    ]_vars

\* C18 witness: a signup saved its account, the signup mail failed, and the
\* request has ended with next(err), without event, the account still stored
C18_Witness ==
  \E c \in Slots :
     /\ call[c].op = "signup" /\ call[c].pc = "done"
     /\ call[c].out = <<NextErr>>
     /\ call[c].nSave = 1
     /\ Len(call[c].mails) = 1 /\ call[c].mails[1].kind = "signup"
     /\ call[c].events = <<>>
     /\ \E i \in 1..Len(store) : store[i].signupToken = call[c].mails[1].token

\* what the client sees after a Resend that was accepted
ResentOutcome ==
  IF config.rest THEN <<[type |-> "send", status |-> 204, code |-> "", view |-> ""]>>
  ELSE <<[type |-> "render", status |-> 200, code |-> "", view |-> "post-signup"]>>

\* the token persisted last for the account id (Undefined when there is none)
LastIssued(hist, id) ==
  LET ks == {k \in 1..Len(hist) : hist[k].id = id}
  IN IF ks = {} THEN Undefined
     ELSE hist[CHOOSE k \in ks : \A m \in ks : m <= k].tok

\* the tokens by which a lookup finds the account id
ValidTokens(id) ==
  {t \in {issued[k].tok : k \in 1..Len(issued)} : AdapterFind("signupToken", t).id = id}

\* uuid.v4() returned the token t after it had returned the token u
DrawnAfter(t, u) ==
  \E i, j \in 0..9 : UuidV4(i) = t /\ UuidV4(j) = u /\ i > j

\* C19: when Resends for one account interleave, each of them whose update
\* and mail succeed stores the token it mails and ends with the answer of an
\* accepted Resend; after every step the account holds no token or the token
\* of the update that reached the store last; a Verification with a token
\* that was persisted for an account but not last ends with next() and changes
\* no account; and never does a lookup find one account by two tokens
C19_LastResendWins ==
  [][/\ \A c \in Slots :
          /\ (Acts(c, "rs_update") /\ NoErr(c))
             => /\ call'[c].pc = "rs_mail"
                /\ store'[call[c].user.id].signupToken = call[c].token
                /\ LastIssued(issued', call[c].user.id) = call[c].token
                /\ Len(call'[c].mails) = 1
                /\ call'[c].mails[1].kind = "resend"
                /\ call'[c].mails[1].token = call[c].token
          /\ (Acts(c, "rs_mail") /\ NoErr(c))
             => /\ call'[c].pc = "done"
                /\ call'[c].out = ResentOutcome
          /\ (/\ Acts(c, "vt_find") /\ NoErr(c)
              /\ \E k \in 1..Len(issued) :
                    /\ issued[k].tok = call[c].reqToken
                    /\ LastIssued(issued, issued[k].id) # call[c].reqToken)
             => /\ call'[c].pc = "done"
                /\ call'[c].out = <<NextOk>>
                /\ store' = store
     /\ \A i \in 1..Len(store') :
          /\ store'[i].signupToken \in {Undefined, LastIssued(issued', i)}
          /\ Cardinality(ValidTokens(i)) <= 1
    ]_vars

\* C19 witness: two Resends for one account both read it before either
\* update was persisted (the token drawn second was persisted first), the
\* account holds the token persisted last, and a Verification with the other
\* token has ended in next()
C19_Witness ==
  \E c \in Slots, k, m \in 1..Len(issued) :
     /\ k < m
     /\ issued[k].id = issued[m].id
     /\ issued[k].by = "resend" /\ issued[m].by = "resend"
     /\ DrawnAfter(issued[k].tok, issued[m].tok)
     /\ store[issued[m].id].signupToken = issued[m].tok
     /\ call[c].op = "verify" /\ call[c].pc = "done"
     /\ call[c].reqToken = issued[k].tok
     /\ call[c].out = <<NextOk>> /\ call[c].nFind = 1

\* C20: no request has two outcomes, and a request that has ended has exactly
\* one: a response (json, send or render), or next(), or next(err)
C20_ExactlyOneOutcome ==
  \A c \in Slots :
     /\ Len(call[c].out) <= 1
     /\ call[c].pc = "done"
        => /\ Len(call[c].out) = 1
           /\ call[c].out[1].type \in {"json", "send", "render", "next"}

====
